---- MODULE Spec2Model ----
(***************************************************************************)
(* Model of synthspace/renderer.py: the RenderController facade and the    *)
(* RenderScene / RenderCamera / RenderObject records it drives.            *)
(*                                                                         *)
(* Python values are encoded as follows.  None in a numeric or reference   *)
(* field is the integer None.  A dict is the sequence of its entries in    *)
(* insertion order.  A str that the code inspects character by character   *)
(* (the output format name, a colour depth given as text) is a sequence of *)
(* one-character strings.  RenderCamera and RenderObject instances live in *)
(* heaps (camera, object) because several scenes can hold the same instance.   *)
(* The external engine (visnav) is modelled only by what the facade hands  *)
(* to it and takes back: constructor arguments, load_object's index.       *)
(***************************************************************************)
EXTENDS Integers, Sequences, FiniteSets, TLC

VARIABLES scenes, ctl_cams, ctl_objs, camera, object, last, log

vars == <<scenes, ctl_cams, ctl_objs, camera, object, last, log>>

(***************************************************************************)
(* Bounds of the model.                                                    *)
(***************************************************************************)
MaxCams == 2      \* RenderCamera instances alive at once
MaxObjs == 2      \* RenderObject instances alive at once
MaxLen == 2       \* longest list given as a scenes selector

SceneNames == {"s1", "s2"}
CamNames == {"c1", "c2"}
ObjNames == {"o1", "o2"}
CamIds == 1..MaxCams
ObjIds == 1..MaxObjs

(***************************************************************************)
(* Python values.                                                          *)
(***************************************************************************)
None == -1
False == 0
True == 1

FORMAT_EXR == 0
FORMAT_PNG == 1

Ok == [kind |-> "ok", who |-> "", msg |-> ""]
Raise(kind, who, msg) == [kind |-> kind, who |-> who, msg |-> msg]

RECURSIVE DictIdx(_, _)
\* position of key k in dict d, 0 when absent
DictIdx(d, k) ==
    IF d = <<>> THEN 0
    ELSE IF d[Len(d)].k = k THEN Len(d)
    ELSE DictIdx(SubSeq(d, 1, Len(d) - 1), k)

DictHas(d, k) == DictIdx(d, k) # 0
DictGet(d, k) == d[DictIdx(d, k)]

\* d[e.k] = e : an existing key keeps its position, a new one is appended
DictPut(d, e) ==
    IF DictHas(d, e.k) THEN [d EXCEPT ![DictIdx(d, e.k)] = e] ELSE Append(d, e)

\* str.upper() on the characters that occur in the modelled format names
UpperChar(c) ==
    CASE c = "p" -> "P" [] c = "n" -> "N" [] c = "g" -> "G" [] c = "o" -> "O"
      [] c = "e" -> "E" [] c = "x" -> "X" [] c = "r" -> "R" [] c = "j" -> "J"
      [] OTHER -> c

Upper(s) == [i \in 1..Len(s) |-> UpperChar(s[i])]

Digits == <<"0", "1", "2", "3", "4", "5", "6", "7", "8", "9">>
IsDigit(c) == \E i \in 1..10 : Digits[i] = c
DigitVal(c) == (CHOOSE i \in 1..10 : Digits[i] = c) - 1

RECURSIVE ParseDigits(_)
ParseDigits(s) ==
    IF s = <<>> THEN 0
    ELSE 10 * ParseDigits(SubSeq(s, 1, Len(s) - 1)) + DigitVal(s[Len(s)])

\* int(v) for v an int, a float (n tenths, n >= 0) or a str
PyInt(v) ==
    CASE v.t = "int" -> [ok |-> TRUE, n |-> v.n]
      [] v.t = "float" -> [ok |-> TRUE, n |-> v.n \div 10]
      [] OTHER ->
           IF v.s # <<>> /\ \A i \in 1..Len(v.s) : IsDigit(v.s[i])
           THEN [ok |-> TRUE, n |-> ParseDigits(v.s)]
           ELSE [ok |-> FALSE, n |-> None]

PyIntOf(n) == [t |-> "int", n |-> n, s |-> <<>>]
PyFloatOf(tenths) == [t |-> "float", n |-> tenths, s |-> <<>>]
PyStrOf(s) == [t |-> "str", n |-> None, s |-> s]

(***************************************************************************)
(* Selectors: the scenes argument of the controller's operations.          *)
(***************************************************************************)
SelNone == [t |-> "none", items |-> <<>>]
SelStr(n) == [t |-> "str", items |-> <<[t |-> "str", v |-> n]>>]
SelScene(n) == [t |-> "scene", items |-> <<[t |-> "scene", v |-> n]>>]
SelInt(n) == [t |-> "int", items |-> <<[t |-> "int", v |-> n]>>]
SelList(items) == [t |-> "list", items |-> items]
SelTuple(items) == [t |-> "tuple", items |-> items]

Item(t, v) == [t |-> t, v |-> v]
SceneItem(n) == Item("scene", n)

\* RenderController._iter(objs, all_objs).  A RenderScene instance is denoted by
\* the name it was created under; the result lists the instances to loop over.
Iter(objs, all_objs) ==
    IF objs.t = "none" THEN
        [res |-> Ok, out |-> [i \in 1..Len(all_objs) |-> SceneItem(all_objs[i].k)]]
    ELSE IF objs.t = "str" THEN
        IF DictHas(all_objs, objs.items[1].v)
        THEN [res |-> Ok, out |-> <<SceneItem(objs.items[1].v)>>]
        ELSE [res |-> Raise("KeyError", "", objs.items[1].v), out |-> <<>>]
    ELSE IF objs.t = "scene" THEN
        [res |-> Ok, out |-> objs.items]
    ELSE IF objs.t = "list" THEN
        IF objs.items = <<>> THEN
            [res |-> Raise("IndexError", "", "list index out of range"), out |-> <<>>]
        ELSE IF objs.items[1].t = "str" THEN
            IF \A i \in 1..Len(objs.items) :
                   objs.items[i].t = "str" /\ DictHas(all_objs, objs.items[i].v)
            THEN [res |-> Ok,
                  out |-> [i \in 1..Len(objs.items) |-> SceneItem(objs.items[i].v)]]
            ELSE [res |-> Raise("KeyError", "", "name"), out |-> <<>>]
        ELSE IF objs.items[1].t = "scene" THEN
            [res |-> Ok, out |-> objs.items]
        ELSE [res |-> Raise("RenderControllerError", "", "Invalid input"), out |-> <<>>]
    ELSE [res |-> Raise("RenderControllerError", "", "Invalid input"), out |-> <<>>]

(***************************************************************************)
(* Records.                                                                *)
(***************************************************************************)
NoModel == [width |-> None, height |-> None]

\* RenderCamera(name); used = FALSE marks a free heap slot
NewCamera(name) ==
    [used |-> TRUE, name |-> name, dirty |-> TRUE, model |-> NoModel,
     loc |-> None, q |-> None, target |-> None,
     focal_length |-> None, sensor_width |-> None,
     frustum_near |-> None, frustum_far |-> None]

FreeCamera == [NewCamera("") EXCEPT !.used = FALSE]

\* RenderObject(name, data); the shape model is identified with the instance
NewObject(name) ==
    [used |-> TRUE, name |-> name, dirty |-> FALSE, loc |-> None, q |-> None]

FreeObject == [NewObject("") EXCEPT !.used = FALSE]

NoRenderer ==
    [exists |-> FALSE, width |-> None, height |-> None, samples |-> None,
     loaded |-> <<>>]

\* RenderEngine(width, height, antialias_samples=samples)
RenderEngine(width, height, samples) ==
    [exists |-> TRUE, width |-> width, height |-> height, samples |-> samples,
     loaded |-> <<>>]

\* RenderEngine.load_object(model): the engine keeps the model and returns its index
EngineLoadObject(eng, model) ==
    [eng |-> [eng EXCEPT !.loaded = Append(eng.loaded, model)],
     idx |-> Len(eng.loaded)]

\* RenderScene(name, render_dir)
NewScene(name) ==
    [k |-> name, dirty |-> TRUE, samples |-> 1, width |-> None, height |-> None,
     file_format |-> None, color_depth |-> None, use_preview |-> None,
     cams |-> <<>>, objs |-> <<>>, sun_loc |-> None, renderer |-> NoRenderer]

\* a call into the engine or to the disk; an image carries the width and height
\* of the camera model it was rendered with and that camera's dirty flag
Event(e, s, n) == [e |-> e, s |-> s, n |-> n, m |-> <<>>]
SaveEvent(s, n, c) ==
    [e |-> "save", s |-> s, n |-> n,
     m |-> <<c.model.width, c.model.height, IF c.dirty THEN True ELSE False>>]

(***************************************************************************)
(* RenderScene.                                                            *)
(***************************************************************************)
\* RenderScene.is_dirty
SceneIsDirty(sc) ==
    sc.dirty \/ \E i \in 1..Len(sc.objs) : sc.objs[i].idx = None

\* RenderScene._check_params: the first assertion that fails, or Ok
SceneCheckParams(sc) ==
    IF sc.sun_loc = None THEN Raise("AssertionError", sc.k, "Sun location not set")
    ELSE IF sc.width = None THEN Raise("AssertionError", sc.k, "width not set")
    ELSE IF sc.height = None THEN Raise("AssertionError", sc.k, "height not set")
    ELSE IF sc.file_format = None THEN Raise("AssertionError", sc.k, "Output file format not set")
    ELSE IF sc.color_depth = None THEN Raise("AssertionError", sc.k, "Output file format not set")
    ELSE IF sc.use_preview = None THEN Raise("AssertionError", sc.k, "Output file format not set")
    ELSE IF Len(sc.cams) = 0 THEN Raise("AssertionError", sc.k, "no cameras")
    ELSE IF Len(sc.objs) = 0 THEN Raise("AssertionError", sc.k, "no objects")
    ELSE Ok

RECURSIVE LoadObjectsOnlyNew(_, _, _)
\* as LoadObjects, but an object that already holds an index is not loaded again
LoadObjectsOnlyNew(sc, i, lg) ==
    IF i > Len(sc.objs) THEN [sc |-> sc, log |-> lg]
    ELSE IF sc.objs[i].idx # None THEN LoadObjectsOnlyNew(sc, i + 1, lg)
    ELSE LET r == EngineLoadObject(sc.renderer, sc.objs[i].ref)
         IN LoadObjectsOnlyNew([sc EXCEPT !.renderer = r.eng, !.objs[i].idx = r.idx],
                               i + 1, Append(lg, Event("load", sc.k, sc.objs[i].k)))

RECURSIVE LoadObjects(_, _, _)
\* the loop of RenderScene.prepare over self._objs, from entry i on
LoadObjects(sc, i, lg) ==
    IF i > Len(sc.objs) THEN [sc |-> sc, log |-> lg]
    ELSE LET r == EngineLoadObject(sc.renderer, sc.objs[i].ref)
         IN LoadObjects([sc EXCEPT !.renderer = r.eng, !.objs[i].idx = r.idx],
                        i + 1, Append(lg, Event("load", sc.k, sc.objs[i].k)))

\* as ScenePrepare, but the engine is built before the parameters are checked
ScenePrepareCheckLast(sc) ==
    LET fresh == [sc EXCEPT !.renderer = RenderEngine(sc.width, sc.height, sc.samples)]
        r == LoadObjects(fresh, 1, <<Event("engine", sc.k, "")>>)
        built == IF SceneIsDirty(sc)
                 THEN [sc |-> [r.sc EXCEPT !.dirty = FALSE], log |-> r.log]
                 ELSE [sc |-> sc, log |-> <<>>]
        chk == SceneCheckParams(sc)
    IN [sc |-> built.sc, res |-> chk, log |-> built.log]

\* as ScenePrepare, but the engine is rebuilt whether or not the scene is dirty
ScenePrepareAlways(sc) ==
    LET chk == SceneCheckParams(sc) IN
    IF chk.kind # "ok" THEN [sc |-> sc, res |-> chk, log |-> <<>>]
    ELSE LET fresh == [sc EXCEPT !.renderer = RenderEngine(sc.width, sc.height, sc.samples)]
             r == LoadObjects(fresh, 1, <<Event("engine", sc.k, "")>>)
         IN [sc |-> [r.sc EXCEPT !.dirty = FALSE], res |-> Ok, log |-> r.log]

\* RenderScene.prepare (the star catalogue is taken to be on disk already)
ScenePrepare(sc) ==
    LET chk == SceneCheckParams(sc) IN
    IF chk.kind # "ok" THEN [sc |-> sc, res |-> chk, log |-> <<>>]
    ELSE IF SceneIsDirty(sc) THEN
        LET fresh == [sc EXCEPT !.renderer = RenderEngine(sc.width, sc.height, sc.samples)]
            r == LoadObjects(fresh, 1, <<Event("engine", sc.k, "")>>)
        IN [sc |-> [r.sc EXCEPT !.dirty = FALSE], res |-> Ok, log |-> r.log]
    ELSE [sc |-> sc, res |-> Ok, log |-> <<>>]

Supported == {1, 4, 9, 16}

\* as SceneSetSamples, but the scene is marked dirty whatever the value
SceneSetSamplesAlwaysDirty(sc, samples) ==
    IF samples \notin Supported
    THEN [sc |-> sc, res |-> Raise("AssertionError", "", "samples are not supported")]
    ELSE [sc |-> [sc EXCEPT !.dirty = TRUE, !.samples = samples], res |-> Ok]

\* RenderScene.set_samples

SceneSetSamples(sc, samples) ==
    IF samples \notin Supported
    THEN [sc |-> sc, res |-> Raise("AssertionError", "", "samples are not supported")]
    ELSE IF sc.samples # samples
    THEN [sc |-> [sc EXCEPT !.dirty = TRUE, !.samples = samples], res |-> Ok]
    ELSE [sc |-> sc, res |-> Ok]

\* RenderScene.set_output_format
SceneSetOutputFormat(sc, file_format, color_depth, use_preview) ==
    [sc EXCEPT !.file_format = file_format, !.color_depth = color_depth,
               !.use_preview = use_preview]

\* RenderScene.set_sun_location
SceneSetSunLocation(sc, loc) == [sc EXCEPT !.sun_loc = loc]

\* RenderScene.link_camera
SceneLinkCamera(sc, name, ref) == [sc EXCEPT !.cams = DictPut(sc.cams, [k |-> name, ref |-> ref])]

\* RenderScene.link_object
SceneLinkObject(sc, name, ref) ==
    [sc EXCEPT !.objs = DictPut(sc.objs, [k |-> name, idx |-> None, ref |-> ref])]

(***************************************************************************)
(* RenderObject and RenderCamera.                                          *)
(***************************************************************************)
\* as ObjCheckParams, but the orientation is not checked
ObjCheckParamsLocOnly(o) ==
    IF o.loc = None THEN Raise("AssertionError", o.name, "Location not set for object")
    ELSE Ok

\* RenderObject._check_params
ObjCheckParams(o) ==
    IF o.loc = None THEN Raise("AssertionError", o.name, "Location not set for object")
    ELSE IF o.q = None THEN Raise("AssertionError", o.name, "Orientation not set for object")
    ELSE Ok

\* RenderObject.prepare
ObjPrepare(o) ==
    LET chk == ObjCheckParams(o) IN
    IF chk.kind # "ok" THEN [o |-> o, res |-> chk]
    ELSE [o |-> [o EXCEPT !.dirty = FALSE], res |-> Ok]

\* RenderCamera._check_params (defined by the class, called from nowhere)
CamCheckParams(c) ==
    IF c.loc = None THEN Raise("AssertionError", c.name, "Location not set for camera")
    ELSE IF c.q = None /\ c.target = None
    THEN Raise("AssertionError", c.name, "Orientation or target is not set for camera")
    ELSE IF c.focal_length = None \/ c.sensor_width = None
            \/ c.frustum_near = None \/ c.frustum_far = None
    THEN Raise("AssertionError", c.name, "Camera not configured")
    ELSE Ok

\* RenderCamera.conf
CamConf(c, lens, sensor, clip_start, clip_end) ==
    [c EXCEPT !.dirty = TRUE, !.focal_length = lens, !.sensor_width = sensor,
              !.frustum_near = clip_start, !.frustum_far = clip_end]

\* RenderCamera.is_dirty
CamIsDirty(c) == c.dirty \/ c.model = NoModel

\* the quaternion RenderCamera._update_target computes
TargetQ == 1

\* RenderCamera._update_target: target.loc - self.loc needs both locations
CamUpdateTarget(c, heap) ==
    IF heap[c.target].loc = None \/ c.loc = None
    THEN [c |-> c, res |-> Raise("TypeError", "", "unsupported operand type(s) for -")]
    ELSE [c |-> [c EXCEPT !.q = TargetQ], res |-> Ok]

\* as CamPrepareModel, but a clean camera keeps its model whatever the resolution
CamPrepareModelDirtyOnly(c, sc) ==
    IF CamIsDirty(c) THEN
        IF c.sensor_width = None \/ c.focal_length = None
        THEN [c |-> c, res |-> Raise("TypeError", "", "unsupported operand type(s) for /")]
        ELSE [c |-> [c EXCEPT !.model = [width |-> sc.width, height |-> sc.height],
                              !.dirty = FALSE],
              res |-> Ok]
    ELSE [c |-> c, res |-> Ok]

\* the rest of RenderCamera.prepare, after the target has been followed
CamPrepareModel(c, sc) ==
    IF CamIsDirty(c) \/ c.model.width # sc.width \/ c.model.height # sc.height THEN
        IF c.sensor_width = None \/ c.focal_length = None
        THEN [c |-> c, res |-> Raise("TypeError", "", "unsupported operand type(s) for /")]
        ELSE [c |-> [c EXCEPT !.model = [width |-> sc.width, height |-> sc.height],
                              !.dirty = FALSE],
              res |-> Ok]
    ELSE [c |-> c, res |-> Ok]

\* RenderCamera.prepare(scene)
CamPrepare(c, sc, heap) ==
    IF c.target # None THEN
        LET u == CamUpdateTarget(c, heap) IN
        IF u.res.kind # "ok" THEN u ELSE CamPrepareModel(u.c, sc)
    ELSE CamPrepareModel(c, sc)

(***************************************************************************)
(* RenderScene.render.                                                     *)
(***************************************************************************)
RECURSIVE PrepareObjects(_, _, _, _)
\* for i, o in self._objs.values(): o.prepare(self)
PrepareObjects(sc, oheap, i, lg) ==
    IF i > Len(sc.objs) THEN [object |-> oheap, res |-> Ok, log |-> lg]
    ELSE LET r == ObjPrepare(oheap[sc.objs[i].ref]) IN
         IF r.res.kind # "ok" THEN [object |-> oheap, res |-> r.res, log |-> lg]
         ELSE PrepareObjects(sc, [oheap EXCEPT ![sc.objs[i].ref] = r.o], i + 1,
                             Append(lg, Event("prep_obj", sc.k, sc.objs[i].k)))

RECURSIVE PrepareCameras(_, _, _, _, _)
\* for c in self._cams.values(): c.prepare(self)
PrepareCameras(sc, cheap, oheap, i, lg) ==
    IF i > Len(sc.cams) THEN [camera |-> cheap, res |-> Ok, log |-> lg]
    ELSE LET r == CamPrepare(cheap[sc.cams[i].ref], sc, oheap) IN
         IF r.res.kind # "ok" THEN [camera |-> cheap, res |-> r.res, log |-> lg]
         ELSE PrepareCameras(sc, [cheap EXCEPT ![sc.cams[i].ref] = r.c], oheap, i + 1,
                             Append(lg, Event("prep_cam", sc.k, sc.cams[i].k)))

\* one pass of the camera loop: relative poses, engine call, _save_img
RenderCamera(sc, c, camname) ==
    IF c.q = None
    THEN [res |-> Raise("AttributeError", "", "'NoneType' object has no attribute 'conj'"),
          log |-> <<>>]
    ELSE IF c.loc = None
    THEN [res |-> Raise("TypeError", "", "unsupported operand type(s) for -"), log |-> <<>>]
    ELSE [res |-> Ok, log |-> <<SaveEvent(sc.k, camname, c)>>]

RECURSIVE RenderCameras(_, _, _, _)
\* for cam_name, c in self._cams.items(): ...
RenderCameras(sc, cheap, i, lg) ==
    IF i > Len(sc.cams) THEN [res |-> Ok, log |-> lg]
    ELSE LET r == RenderCamera(sc, cheap[sc.cams[i].ref], sc.cams[i].k) IN
         IF r.res.kind # "ok" THEN [res |-> r.res, log |-> lg]
         ELSE RenderCameras(sc, cheap, i + 1, lg \o r.log)

\* RenderScene.render, the camera loop: c is the outcome of preparing the cameras
RenderPrepared(sc, c, oheap) ==
    IF c.res.kind # "ok"
    THEN [sc |-> sc, camera |-> c.camera, object |-> oheap, res |-> c.res, log |-> c.log]
    ELSE [sc |-> sc, camera |-> c.camera, object |-> oheap] @@ RenderCameras(sc, c.camera, 1, c.log)

\* RenderScene.render, the cameras: o is the outcome of preparing the objects
RenderWithObjects(sc, cheap, o) ==
    IF o.res.kind # "ok"
    THEN [sc |-> sc, camera |-> cheap, object |-> o.object, res |-> o.res, log |-> o.log]
    ELSE RenderPrepared(sc, PrepareCameras(sc, cheap, o.object, 1, o.log), o.object)

\* RenderScene.render, the objects: p is the outcome of self.prepare()
RenderWithScene(p, cheap, oheap) ==
    IF p.res.kind # "ok"
    THEN [sc |-> p.sc, camera |-> cheap, object |-> oheap, res |-> p.res, log |-> p.log]
    ELSE RenderWithObjects(p.sc, cheap, PrepareObjects(p.sc, oheap, 1, p.log))

\* RenderScene.render(name_suffix)
SceneRender(sc, cheap, oheap) == RenderWithScene(ScenePrepare(sc), cheap, oheap)

\* as SceneSetResolution, but every camera is marked dirty
SceneSetResolutionAllCameras(sc, cheap, res) ==
    IF <<sc.width, sc.height>> # res THEN
        [sc |-> [sc EXCEPT !.width = res[1], !.height = res[2], !.dirty = TRUE],
         camera |-> [i \in DOMAIN cheap |->
                        IF cheap[i].used THEN [cheap[i] EXCEPT !.dirty = TRUE] ELSE cheap[i]]]
    ELSE [sc |-> sc, camera |-> cheap]

\* RenderScene.set_resolution(res), res = <<width, height>>
SceneSetResolution(sc, cheap, res) ==
    IF <<sc.width, sc.height>> # res THEN
        [sc |-> [sc EXCEPT !.width = res[1], !.height = res[2], !.dirty = TRUE],
         camera |-> [i \in DOMAIN cheap |->
                        IF \E j \in 1..Len(sc.cams) : sc.cams[j].ref = i
                        THEN [cheap[i] EXCEPT !.dirty = TRUE] ELSE cheap[i]]]
    ELSE [sc |-> sc, camera |-> cheap]

(***************************************************************************)
(* RenderController.  Every operation records the call and its outcome in  *)
(* last, and what the call did to the engine and the disk in log.          *)
(***************************************************************************)
Call(op, sel, arg, res) ==
    [op |-> op, sel |-> sel, arg |-> arg, fmt |-> <<>>, depth |-> PyIntOf(0),
     out |-> <<>>, res |-> res]

\* instances still referenced by the controller or by a scene stay in the heap,
\* the others are reclaimed
CamRefs(scs, cc) ==
    {cc[n] : n \in DOMAIN cc}
        \cup UNION {{scs[i].cams[j].ref : j \in 1..Len(scs[i].cams)} : i \in 1..Len(scs)}

ObjRefs(scs, co, cheap) ==
    {co[n] : n \in DOMAIN co}
        \cup UNION {{scs[i].objs[j].ref : j \in 1..Len(scs[i].objs)} : i \in 1..Len(scs)}
        \cup {cheap[i].target : i \in DOMAIN cheap}

Collect(scs, cc, co, cheap, oheap) ==
    LET ch == [i \in DOMAIN cheap |->
                  IF i \in CamRefs(scs, cc) THEN cheap[i] ELSE FreeCamera]
        oh == [i \in DOMAIN oheap |->
                  IF i \in ObjRefs(scs, co, ch) THEN oheap[i] ELSE FreeObject]
    IN [camera |-> ch, object |-> oh]

Commit(scs, cc, co, cheap, oheap, call, lg) ==
    LET h == Collect(scs, cc, co, cheap, oheap) IN
    /\ scenes' = scs
    /\ ctl_cams' = cc
    /\ ctl_objs' = co
    /\ camera' = h.camera
    /\ object' = h.object
    /\ last' = call
    /\ log' = lg

\* an operation that raised before it changed anything
Failed(call) ==
    /\ last' = call
    /\ log' = <<>>
    /\ UNCHANGED <<scenes, ctl_cams, ctl_objs, camera, object>>

SceneAt(scs, item) == DictIdx(scs, item.v)

\* RenderController.create_scene
CreateScene(name) ==
    Commit(DictPut(scenes, NewScene(name)), ctl_cams, ctl_objs, camera, object,
           Call("create_scene", SelStr(name), <<>>, Ok), <<>>)

\* RenderController._iter_scenes, called on its own
IterScenes(sel) ==
    LET it == Iter(sel, scenes) IN
    /\ last' = [Call("_iter_scenes", sel, <<>>, it.res) EXCEPT !.out = it.out]
    /\ log' = <<>>
    /\ UNCHANGED <<scenes, ctl_cams, ctl_objs, camera, object>>

RECURSIVE EachSetSamples(_, _, _, _)
EachSetSamples(scs, out, i, samples) ==
    IF i > Len(out) THEN [scenes |-> scs, res |-> Ok]
    ELSE LET r == SceneSetSamples(scs[SceneAt(scs, out[i])], samples) IN
         IF r.res.kind # "ok" THEN [scenes |-> scs, res |-> r.res]
         ELSE EachSetSamples([scs EXCEPT ![SceneAt(scs, out[i])] = r.sc], out, i + 1, samples)

\* RenderController.set_samples
SetSamples(samples, sel) ==
    LET it == Iter(sel, scenes) IN
    IF it.res.kind # "ok" THEN Failed(Call("set_samples", sel, <<samples>>, it.res))
    ELSE LET r == EachSetSamples(scenes, it.out, 1, samples) IN
         Commit(r.scenes, ctl_cams, ctl_objs, camera, object,
                Call("set_samples", sel, <<samples>>, r.res), <<>>)

RECURSIVE EachSetResolution(_, _, _, _, _)
EachSetResolution(scs, cheap, out, i, res) ==
    IF i > Len(out) THEN [scenes |-> scs, camera |-> cheap]
    ELSE LET r == SceneSetResolution(scs[SceneAt(scs, out[i])], cheap, res) IN
         EachSetResolution([scs EXCEPT ![SceneAt(scs, out[i])] = r.sc], r.camera,
                           out, i + 1, res)

\* RenderController.set_resolution
SetResolution(res, sel) ==
    LET it == Iter(sel, scenes) IN
    IF it.res.kind # "ok" THEN Failed(Call("set_resolution", sel, res, it.res))
    ELSE LET r == EachSetResolution(scenes, camera, it.out, 1, res) IN
         Commit(r.scenes, ctl_cams, ctl_objs, r.camera, object,
                Call("set_resolution", sel, res, Ok), <<>>)

\* the dict lookup of RenderController.set_output_format
FormatOf(name) ==
    IF name = <<"O", "P", "E", "N", "_", "E", "X", "R">> THEN FORMAT_EXR
    ELSE IF name = <<"P", "N", "G">> THEN FORMAT_PNG
    ELSE None

\* as FormatDepthOk, but every supported depth passes with every format
FormatDepthAny(file_format, color_depth) ==
    file_format \in {FORMAT_PNG, FORMAT_EXR} /\ color_depth \in {8, 16, 32}

\* the second assertion of RenderController.set_output_format
FormatDepthOk(file_format, color_depth) ==
    \/ file_format = FORMAT_PNG /\ color_depth \in {8, 16}
    \/ file_format = FORMAT_EXR /\ color_depth = 32

\* RenderController.set_output_format
SetOutputFormat(file_format, color_depth, use_preview, sel) ==
    LET call(res) == [Call("set_output_format", sel, <<use_preview>>, res)
                         EXCEPT !.fmt = file_format, !.depth = color_depth]
        depth == PyInt(color_depth)
        format == FormatOf(Upper(file_format))
        it == Iter(sel, scenes)
    IN
    IF ~depth.ok THEN Failed(call(Raise("ValueError", "", "invalid literal for int()")))
    ELSE IF format = None
    THEN Failed(call(Raise("AssertionError", "", "only OPEN_EXR and PNG supported")))
    ELSE IF ~FormatDepthOk(format, depth.n)
    THEN Failed(call(Raise("AssertionError", "", "PNG supports color depths 8 and 16, OPEN_EXR a color depth of 32")))
    ELSE IF it.res.kind # "ok" THEN Failed(call(it.res))
    ELSE Commit([i \in 1..Len(scenes) |->
                    IF \E j \in 1..Len(it.out) : it.out[j].v = scenes[i].k
                    THEN SceneSetOutputFormat(scenes[i], format, depth.n, use_preview)
                    ELSE scenes[i]],
                ctl_cams, ctl_objs, camera, object, call(Ok), <<>>)

\* RenderController.set_sun_location
SetSunLocation(loc, sel) ==
    LET it == Iter(sel, scenes) IN
    IF it.res.kind # "ok" THEN Failed(Call("set_sun_location", sel, <<loc>>, it.res))
    ELSE Commit([i \in 1..Len(scenes) |->
                    IF \E j \in 1..Len(it.out) : it.out[j].v = scenes[i].k
                    THEN SceneSetSunLocation(scenes[i], loc)
                    ELSE scenes[i]],
                ctl_cams, ctl_objs, camera, object,
                Call("set_sun_location", sel, <<loc>>, Ok), <<>>)

\* the keys of a RenderScene instance's __dict__
SceneDict ==
    {"name", "_dirty", "_samples", "_width", "_height", "_render_dir", "_file_format",
     "_color_depth", "_use_preview", "_cams", "_objs", "_sun_loc", "_renderer",
     "object_scale", "flux_only", "normalize", "stars", "lens_effects", "hapke_params",
     "verbose", "debug"}

\* setattr(s, p, v) for the attributes set_scene_config is given here
SetAttr(sc, p, v) ==
    IF p = "_samples" THEN [sc EXCEPT !.samples = v]
    ELSE IF p = "_width" THEN [sc EXCEPT !.width = v]
    ELSE IF p = "_height" THEN [sc EXCEPT !.height = v]
    ELSE IF p = "_sun_loc" THEN [sc EXCEPT !.sun_loc = v]
    ELSE sc

RECURSIVE ApplyParams(_, _, _)
\* for p, v in params.items(): assert p in s.__dict__; setattr(s, p, v)
ApplyParams(sc, params, j) ==
    IF j > Len(params) THEN [sc |-> sc, res |-> Ok]
    ELSE IF params[j][1] \notin SceneDict
    THEN [sc |-> sc,
          res |-> Raise("AssertionError", "",
                        "Class RenderScene does not have a property with the name")]
    ELSE ApplyParams(SetAttr(sc, params[j][1], params[j][2]), params, j + 1)

RECURSIVE EachSetConfig(_, _, _, _)
\* what the inner loop leaves behind: r is its outcome for the scene at index at
AfterSetConfig(scs, at, r, out, i, params) ==
    IF r.res.kind # "ok" THEN [scenes |-> [scs EXCEPT ![at] = r.sc], res |-> r.res]
    ELSE EachSetConfig([scs EXCEPT ![at] = r.sc], out, i + 1, params)

\* for s in self._iter_scenes(scenes): ...
EachSetConfig(scs, out, i, params) ==
    IF i > Len(out) THEN [scenes |-> scs, res |-> Ok]
    ELSE AfterSetConfig(scs, SceneAt(scs, out[i]),
                        ApplyParams(scs[SceneAt(scs, out[i])], params, 1), out, i, params)

\* RenderController.set_scene_config, the loops
SetSceneConfigAll(call, r) ==
    Commit(r.scenes, ctl_cams, ctl_objs, camera, object, [call EXCEPT !.res = r.res], <<>>)

\* RenderController.set_scene_config; params is the dict as a sequence of
\* <<name, value>> in insertion order
SetSceneConfig(params, sel) ==
    LET it == Iter(sel, scenes) IN
    IF it.res.kind # "ok" THEN Failed(Call("set_scene_config", sel, params, it.res))
    ELSE SetSceneConfigAll(Call("set_scene_config", sel, params, Ok),
                           EachSetConfig(scenes, it.out, 1, params))

\* the heap slot a new instance takes
FreeCamIds == {i \in CamIds : ~camera[i].used}
FreeObjIds == {i \in ObjIds : ~object[i].used}
Lowest(ids) == CHOOSE i \in ids : \A j \in ids : i <= j

Selected(out, name) == \E j \in 1..Len(out) : out[j].v = name

\* RenderController.create_camera: the controller's entry is replaced before the
\* selector is resolved
CreateCamera(camera_name, sel) ==
    /\ FreeCamIds # {}
    /\ LET id == Lowest(FreeCamIds)
           cc == [ctl_cams EXCEPT ![camera_name] = id]
           cheap == [camera EXCEPT ![id] = NewCamera(camera_name)]
           it == Iter(sel, scenes)
       IN IF it.res.kind # "ok"
          THEN Commit(scenes, cc, ctl_objs, cheap, object,
                      Call("create_camera", sel, <<id>>, it.res), <<>>)
          ELSE Commit([i \in 1..Len(scenes) |->
                          IF Selected(it.out, scenes[i].k)
                          THEN SceneLinkCamera(scenes[i], camera_name, id)
                          ELSE scenes[i]],
                      cc, ctl_objs, cheap, object,
                      Call("create_camera", sel, <<id>>, Ok), <<>>)

\* default arguments of RenderController.configure_camera
DefaultLens == 35
DefaultSensor == 32
DefaultClipStartExp == -2
DefaultClipEndExp == 12

\* RenderController.configure_camera
ConfigureCamera(camera_name) ==
    IF ctl_cams[camera_name] = None
    THEN Failed(Call("configure_camera", SelStr(camera_name), <<>>,
                     Raise("KeyError", "", camera_name)))
    ELSE Commit(scenes, ctl_cams, ctl_objs,
                [camera EXCEPT ![ctl_cams[camera_name]] =
                    CamConf(@, DefaultLens, DefaultSensor, DefaultClipStartExp,
                            DefaultClipEndExp)],
                object, Call("configure_camera", SelStr(camera_name), <<>>, Ok), <<>>)

\* RenderController.set_camera_location; orientation None leaves cam.q alone
SetCameraLocation(camera_name, location, orientation) ==
    IF ctl_cams[camera_name] = None
    THEN Failed(Call("set_camera_location", SelStr(camera_name), <<location, orientation>>,
                     Raise("KeyError", "", camera_name)))
    ELSE Commit(scenes, ctl_cams, ctl_objs,
                [camera EXCEPT ![ctl_cams[camera_name]] =
                    [@ EXCEPT !.loc = location,
                              !.q = IF orientation # None THEN orientation ELSE @]],
                object,
                Call("set_camera_location", SelStr(camera_name),
                     <<location, orientation>>, Ok), <<>>)

\* RenderController.target_camera
TargetCamera(target_obj, camera_name) ==
    IF ctl_cams[camera_name] = None
    THEN Failed(Call("target_camera", SelStr(camera_name), <<target_obj>>,
                     Raise("KeyError", "", camera_name)))
    ELSE Commit(scenes, ctl_cams, ctl_objs,
                [camera EXCEPT ![ctl_cams[camera_name]].target = target_obj],
                object, Call("target_camera", SelStr(camera_name), <<target_obj>>, Ok), <<>>)

\* str.lower() on the characters that occur in the modelled file names
LowerChar(c) ==
    CASE c = "O" -> "o" [] c = "B" -> "b" [] c = "J" -> "j" [] OTHER -> c

Lower(s) == [i \in 1..Len(s) |-> LowerChar(s[i])]

\* filename[-4:]
Last4(s) == IF Len(s) <= 4 THEN s ELSE SubSeq(s, Len(s) - 3, Len(s))

\* RenderController.load_object: the controller's entry is replaced before the
\* selector is resolved
LoadObject(filename, object_name, sel) ==
    IF Lower(Last4(filename)) # <<".", "o", "b", "j">>
    THEN Failed(Call("load_object", sel, <<>>,
                     Raise("AssertionError", "", "only .obj files currently supported")))
    ELSE
    /\ FreeObjIds # {}
    /\ LET id == Lowest(FreeObjIds)
           co == [ctl_objs EXCEPT ![object_name] = id]
           oheap == [object EXCEPT ![id] = NewObject(object_name)]
           it == Iter(sel, scenes)
       IN IF it.res.kind # "ok"
          THEN Commit(scenes, ctl_cams, co, camera, oheap,
                      Call("load_object", sel, <<id>>, it.res), <<>>)
          ELSE Commit([i \in 1..Len(scenes) |->
                          IF Selected(it.out, scenes[i].k)
                          THEN SceneLinkObject(scenes[i], object_name, id)
                          ELSE scenes[i]],
                      ctl_cams, co, camera, oheap,
                      Call("load_object", sel, <<id>>, Ok), <<>>)

\* RenderObject.location setter, on an instance the caller holds
SetObjectLocation(id, value) ==
    /\ object[id].used
    /\ Commit(scenes, ctl_cams, ctl_objs, camera, [object EXCEPT ![id].loc = value],
              Call("location", SelNone, <<id, value>>, Ok), <<>>)

\* RenderObject.rotation_axis_angle setter, on an instance the caller holds
SetObjectRotation(id, value) ==
    /\ object[id].used
    /\ Commit(scenes, ctl_cams, ctl_objs, camera, [object EXCEPT ![id].q = value],
              Call("rotation_axis_angle", SelNone, <<id, value>>, Ok), <<>>)

RECURSIVE EachRender(_, _, _, _, _, _)
\* as AfterRender, but a scene that failed is passed over and the loop goes on
AfterRenderGoOn(scs, at, r, out, i, lg) ==
    EachRender([scs EXCEPT ![at] = r.sc], r.camera, r.object, out, i + 1, lg \o r.log)

\* what one s.render leaves behind: r is its outcome for the scene at index at
AfterRender(scs, at, r, out, i, lg) ==
    IF r.res.kind # "ok"
    THEN [scenes |-> [scs EXCEPT ![at] = r.sc], camera |-> r.camera, object |-> r.object,
          res |-> r.res, log |-> lg \o r.log]
    ELSE EachRender([scs EXCEPT ![at] = r.sc], r.camera, r.object, out, i + 1, lg \o r.log)

\* for s in self._iter_scenes(scenes): s.render(metadata["date"])
EachRender(scs, cheap, oheap, out, i, lg) ==
    IF i > Len(out)
    THEN [scenes |-> scs, camera |-> cheap, object |-> oheap, res |-> Ok, log |-> lg]
    ELSE AfterRender(scs, SceneAt(scs, out[i]),
                     SceneRender(scs[SceneAt(scs, out[i])], cheap, oheap), out, i, lg)

\* RenderController.render, the loop over the scenes _iter_scenes returned
RenderAll(call, r) ==
    Commit(r.scenes, ctl_cams, ctl_objs, r.camera, r.object,
           [call EXCEPT !.res = r.res], r.log)

\* RenderController.render; metadata is "date" (a dict with a date field),
\* "nodate" (a dict without one) or "nodict"
Render(metadata, sel) ==
    LET call(res) == [Call("render", sel, <<>>, res) EXCEPT !.fmt = <<metadata>>]
        it == Iter(sel, scenes)
    IN
    IF metadata = "nodict"
    THEN Failed(call(Raise("AssertionError", "", "metadata dictionary needs to be given as a dictionary")))
    ELSE IF metadata = "nodate"
    THEN Failed(call(Raise("AssertionError", "", "metadata needs to contain a date field")))
    ELSE IF it.res.kind # "ok" THEN Failed(call(it.res))
    ELSE RenderAll(call(Ok), EachRender(scenes, camera, object, it.out, 1, <<>>))

\* RenderScene.prepare called on the registered scene of that name
Prepare(name) ==
    /\ DictHas(scenes, name)
    /\ LET r == ScenePrepare(DictGet(scenes, name)) IN
       Commit([scenes EXCEPT ![DictIdx(scenes, name)] = r.sc], ctl_cams, ctl_objs,
              camera, object, Call("prepare", SelStr(name), <<>>, r.res), r.log)

(***************************************************************************)
(* The state after RenderController(render_dir).                           *)
(***************************************************************************)
Init ==
    /\ scenes = <<>>
    /\ ctl_cams = [n \in CamNames |-> None]
    /\ ctl_objs = [n \in ObjNames |-> None]
    /\ camera = [i \in CamIds |-> FreeCamera]
    /\ object = [i \in ObjIds |-> FreeObject]
    /\ last = Call("__init__", SelNone, <<>>, Ok)
    /\ log = <<>>

(***************************************************************************)
(* Inputs.                                                                 *)
(***************************************************************************)
NameSelectors == {SelNone} \cup {SelStr(n) : n \in SceneNames}

FormatNames ==
    {<<"P", "N", "G">>, <<"p", "n", "g">>, <<"O", "P", "E", "N", "_", "E", "X", "R">>,
     <<"o", "p", "e", "n", "_", "E", "x", "r">>, <<"J", "P", "E", "G">>}

Depths ==
    {PyIntOf(8), PyIntOf(16), PyIntOf(32), PyIntOf(24),
     PyStrOf(<<"1", "6">>), PyStrOf(<<"x">>), PyFloatOf(85)}

FormatSelectors ==
    {SelNone, SelStr("s1"), SelList(<<Item("str", "s2"), Item("str", "s1")>>)}

\* selector inputs of every shape, lists up to MaxLen long
IterItems ==
    {Item("str", "s1"), Item("str", "s2"), Item("str", "zz"),
     Item("scene", "s1"), Item("scene", "s2"), Item("int", "7")}

RECURSIVE SeqsUpTo(_, _)
SeqsUpTo(S, n) ==
    IF n = 0 THEN {<<>>}
    ELSE LET shorter == SeqsUpTo(S, n - 1)
         IN shorter \cup {Append(s, x) : s \in shorter, x \in S}

IterSelectors ==
    {SelNone, SelInt("7")}
        \cup {[t |-> i.t, items |-> <<i>>] : i \in IterItems \ {Item("int", "7")}}
        \cup {SelList(s) : s \in SeqsUpTo(IterItems, MaxLen)}
        \cup {SelTuple(<<Item("str", "s1")>>), SelTuple(<<>>)}

(***************************************************************************)
(* Specifications.                                                         *)
(***************************************************************************)
\* the output format of up to two scenes
NextFormat ==
    \/ \E n \in SceneNames : CreateScene(n)
    \/ \E f \in FormatNames, d \in Depths, s \in FormatSelectors :
           SetOutputFormat(f, d, True, s)

SpecFormat == Init /\ [][NextFormat]_vars

\* the selector resolution against up to two registered scenes
NextIter ==
    \/ \E n \in SceneNames : CreateScene(n)
    \/ \E s \in IterSelectors : IterScenes(s)

SpecIter == Init /\ [][NextIter]_vars

ObjFile == <<"a", ".", "o", "b", "j">>
Origin == 0
UnitQ == 0
Resolutions == {<<2, 2>>, <<4, 2>>}
PngName == <<"p", "n", "g">>

\* lazy rebuild of the engine of scene s1: one camera, two object names that are
\* loaded and loaded again, for s1 or for a scene name that is not registered
Next ==
    \/ CreateScene("s1")
    \/ SetSunLocation(Origin, SelStr("s1"))
    \/ \E p \in {True, None} : SetOutputFormat(PngName, PyStrOf(<<"8">>), p, SelStr("s1"))
    \/ CreateCamera("c1", SelStr("s1"))
    \/ \E o \in ObjNames, n \in SceneNames : LoadObject(ObjFile, o, SelStr(n))
    \/ \E k \in {1, 4} : SetSamples(k, SelStr("s1"))
    \/ \E r \in Resolutions : SetResolution(r, SelStr("s1"))
    \/ Prepare("s1")
    \/ Render("date", SelStr("s1"))

Spec == Init /\ [][Next]_vars

\* the caller registers its scenes first and uses each camera and object name once
AllCreated == \A n \in SceneNames : DictHas(scenes, n)
CreateOnce(n) == ~DictHas(scenes, n) /\ CreateScene(n)
CameraOnce(n, sel) == ctl_cams[n] = None /\ CreateCamera(n, sel)
ObjectOnce(n, sel) == ctl_objs[n] = None /\ LoadObject(ObjFile, n, sel)

\* sample counts of two scenes that are set up alike and prepared
SampleInputs == {0, 1, 2, 4, 9, 16, 17}

NextSamples ==
    \/ \E n \in SceneNames : CreateOnce(n)
    \/ AllCreated /\ SetSunLocation(Origin, SelNone)
    \/ AllCreated /\ SetOutputFormat(PngName, PyStrOf(<<"8">>), True, SelNone)
    \/ AllCreated /\ SetResolution(<<2, 2>>, SelNone)
    \/ AllCreated /\ CameraOnce("c1", SelNone)
    \/ AllCreated /\ ObjectOnce("o1", SelNone)
    \/ \E k \in SampleInputs, s \in {SelNone, SelStr("s1")} : SetSamples(k, s)
    \/ \E n \in SceneNames : Prepare(n)

SpecSamples == Init /\ [][NextSamples]_vars

\* what the caller has set up so far
SceneReady(n) ==
    /\ DictHas(scenes, n)
    /\ DictGet(scenes, n).sun_loc # None
    /\ DictGet(scenes, n).file_format # None
ObjectReady(n) ==
    /\ ctl_objs[n] # None
    /\ object[ctl_objs[n]].loc # None
    /\ object[ctl_objs[n]].q # None
CameraReady(n) ==
    /\ ctl_cams[n] # None
    /\ camera[ctl_cams[n]].focal_length # None
    /\ camera[ctl_cams[n]].loc # None

\* cameras of one scene: the scene and its object are set up first, then camera
\* c1 is created, configured, placed, turned and targeted in any order, next to a
\* camera c2 that is created, configured and placed
NextCam ==
    \/ CreateOnce("s1")
    \/ DictHas(scenes, "s1") /\ SetSunLocation(Origin, SelNone)
    \/ DictHas(scenes, "s1") /\ SetOutputFormat(PngName, PyStrOf(<<"8">>), True, SelNone)
    \/ SceneReady("s1") /\ SetResolution(<<2, 2>>, SelNone)
    \/ SceneReady("s1") /\ ObjectOnce("o1", SelNone)
    \/ ctl_objs["o1"] # None /\ SetObjectLocation(ctl_objs["o1"], Origin)
    \/ ctl_objs["o1"] # None /\ SetObjectRotation(ctl_objs["o1"], UnitQ)
    \/ ObjectReady("o1") /\ \E n \in CamNames : CreateCamera(n, SelNone)
    \/ ObjectReady("o1") /\ \E n \in CamNames : ConfigureCamera(n)
    \/ ObjectReady("o1") /\ \E p \in {<<Origin, UnitQ>>, <<Origin, None>>, <<None, None>>} :
           SetCameraLocation("c1", p[1], p[2])
    \/ ObjectReady("o1") /\ SetCameraLocation("c2", Origin, UnitQ)
    \/ ObjectReady("o1") /\ TargetCamera(ctl_objs["o1"], "c1")
    \/ ObjectReady("o1") /\ Render("date", SelStr("s1"))

SpecCam == Init /\ [][NextCam]_vars

\* two scenes that share camera c1, camera c2 on the second scene only: both
\* scenes are set up, then resolutions change and renders alternate
BothReady == SceneReady("s1") /\ SceneReady("s2")
Staged == BothReady /\ ObjectReady("o1") /\ CameraReady("c1") /\ CameraReady("c2")

NextRes ==
    \/ \E n \in SceneNames : CreateOnce(n)
    \/ AllCreated /\ SetSunLocation(Origin, SelNone)
    \/ AllCreated /\ SetOutputFormat(PngName, PyStrOf(<<"8">>), True, SelNone)
    \/ BothReady /\ ObjectOnce("o1", SelNone)
    \/ ctl_objs["o1"] # None /\ SetObjectLocation(ctl_objs["o1"], Origin)
    \/ ctl_objs["o1"] # None /\ SetObjectRotation(ctl_objs["o1"], UnitQ)
    \/ ObjectReady("o1") /\ CameraOnce("c1", SelNone)
    \/ ObjectReady("o1") /\ CameraOnce("c2", SelStr("s2"))
    \/ \E n \in CamNames : ctl_cams[n] # None /\ ~CameraReady(n) /\ ConfigureCamera(n)
    \/ \E n \in CamNames : ctl_cams[n] # None /\ ~CameraReady(n)
                              /\ SetCameraLocation(n, Origin, UnitQ)
    \/ Staged /\ ConfigureCamera("c1")
    \/ Staged /\ \E r \in Resolutions, s \in NameSelectors : SetResolution(r, s)
    \/ Staged /\ \E n \in SceneNames : Render("date", SelStr(n))

SpecRes == Init /\ [][NextRes]_vars

\* objects of one scene: the scene and its two cameras are set up first, then
\* the objects are loaded, placed and turned in any order
NextObj ==
    \/ CreateOnce("s1")
    \/ DictHas(scenes, "s1") /\ SetSunLocation(Origin, SelNone)
    \/ DictHas(scenes, "s1") /\ SetOutputFormat(PngName, PyStrOf(<<"8">>), True, SelNone)
    \/ SceneReady("s1") /\ SetResolution(<<2, 2>>, SelNone)
    \/ SceneReady("s1") /\ \E n \in CamNames : CameraOnce(n, SelNone)
    \/ \E n \in CamNames : ctl_cams[n] # None /\ ~CameraReady(n) /\ ConfigureCamera(n)
    \/ \E n \in CamNames : ctl_cams[n] # None /\ ~CameraReady(n)
                              /\ SetCameraLocation(n, Origin, UnitQ)
    \/ CameraReady("c1") /\ CameraReady("c2") /\ \E n \in ObjNames : ObjectOnce(n, SelNone)
    \/ \E n \in ObjNames : ctl_objs[n] # None /\ SetObjectLocation(ctl_objs[n], Origin)
    \/ \E n \in ObjNames : ctl_objs[n] # None /\ SetObjectRotation(ctl_objs[n], UnitQ)
    \/ CameraReady("c1") /\ CameraReady("c2") /\ Render("date", SelStr("s1"))

SpecObj == Init /\ [][NextObj]_vars

\* renders of several scenes: two scenes registered in either order, each given
\* its sun location on its own, camera c1 on both and c2 on the second
RenderSelectors ==
    {SelNone,
     SelList(<<Item("str", "s1"), Item("str", "s2")>>),
     SelList(<<Item("str", "s2"), Item("str", "s1")>>),
     SelList(<<Item("str", "s1"), Item("str", "s1")>>)}

Formatted ==
    /\ AllCreated
    /\ DictGet(scenes, "s1").file_format # None
    /\ DictGet(scenes, "s1").width # None

NextOrder ==
    \/ \E n \in SceneNames : CreateOnce(n)
    \/ AllCreated /\ SetOutputFormat(PngName, PyStrOf(<<"8">>), True, SelNone)
    \/ AllCreated /\ SetResolution(<<2, 2>>, SelNone)
    \/ Formatted /\ \E n \in SceneNames : SetSunLocation(Origin, SelStr(n))
    \/ Formatted /\ ObjectOnce("o1", SelNone)
    \/ ctl_objs["o1"] # None /\ SetObjectLocation(ctl_objs["o1"], Origin)
    \/ ctl_objs["o1"] # None /\ SetObjectRotation(ctl_objs["o1"], UnitQ)
    \/ ObjectReady("o1") /\ CameraOnce("c1", SelNone)
    \/ ObjectReady("o1") /\ CameraOnce("c2", SelStr("s2"))
    \/ \E n \in CamNames : ctl_cams[n] # None /\ ~CameraReady(n) /\ ConfigureCamera(n)
    \/ \E n \in CamNames : ctl_cams[n] # None /\ ~CameraReady(n)
                              /\ SetCameraLocation(n, Origin, UnitQ)
    \/ ctl_cams["c1"] # None /\ ctl_cams["c2"] # None
          /\ \E s \in RenderSelectors : Render("date", s)

SpecOrder == Init /\ [][NextOrder]_vars

\* configuration dicts of up to two entries with different names, one of
\* which is no attribute of a scene
ConfigEntries == {<<"_samples", 4>>, <<"_width", 2>>, <<"bogus", 0>>}
ConfigParams ==
    {<<>>} \cup {<<e>> : e \in ConfigEntries}
           \cup {p \in ConfigEntries \X ConfigEntries : p[1] # p[2]}

NextConfig ==
    \/ \E n \in SceneNames : CreateOnce(n)
    \/ \E k \in {1, 9} : SetSamples(k, SelNone)
    \/ \E p \in ConfigParams, s \in NameSelectors : SetSceneConfig(p, s)

SpecConfig == Init /\ [][NextConfig]_vars

(***************************************************************************)
(* Properties.                                                             *)
(***************************************************************************)
Registered(name) == DictHas(scenes, name)
S1 == DictGet(scenes, "s1")

\* a parameter RenderScene.render needs is missing
Unset(sc) ==
    \/ sc.sun_loc = None \/ sc.width = None \/ sc.height = None
    \/ sc.file_format = None \/ sc.color_depth = None \/ sc.use_preview = None
    \/ sc.cams = <<>> \/ sc.objs = <<>>

EngineEvents(lg) == {i \in 1..Len(lg) : lg[i].e \in {"engine", "load"}}
SaveEvents(lg) == {i \in 1..Len(lg) : lg[i].e = "save"}

\* C2: a render of a scene with a missing parameter, no camera or no object
\* raises an assertion error about the scene before an engine is created, an
\* object loaded or an image written, and leaves the scene as it was
C2_RenderChecksFirst ==
    [][(last'.op = "render" /\ Registered("s1") /\ Unset(S1))
         => /\ last'.res.kind = "AssertionError"
            /\ last'.res.who = "s1"
            /\ log' = <<>>
            /\ scenes' = scenes
            /\ camera' = camera]_vars

\* a failed render of a scene that has an engine and indexed objects
C2_Witness ==
    /\ last.op = "render"
    /\ last.res.kind = "AssertionError"
    /\ last.res.who = "s1"
    /\ Registered("s1")
    /\ S1.renderer.exists
    /\ ~S1.dirty
    /\ Len(S1.objs) = 2
    /\ S1.use_preview = None

\* not dirty: nothing for prepare to rebuild
Clean(sc) == ~sc.dirty /\ \A i \in 1..Len(sc.objs) : sc.objs[i].idx # None

\* the step is one of the calls that make scene s1 stale
Invalidating ==
    \/ last'.op = "create_scene"
    \/ last'.op = "set_samples" /\ last'.arg # <<S1.samples>>
    \/ last'.op = "set_resolution" /\ last'.arg # <<S1.width, S1.height>>
    \/ last'.op = "load_object" /\ last'.sel = SelStr("s1")

\* C3: prepare builds an engine and loads objects only for a dirty scene; once
\* prepared, the scene stays prepared and keeps its engine through every call
\* but set_samples / set_resolution to another value and load_object on it
C3_LazyRebuild ==
    [][/\ (last'.op \in {"prepare", "render"} /\ Registered("s1") /\ ~Unset(S1))
            => Clean(DictGet(scenes', "s1"))
       /\ (Registered("s1") /\ Clean(S1) /\ ~Invalidating)
            => /\ DictHas(scenes', "s1")
               /\ Clean(DictGet(scenes', "s1"))
               /\ DictGet(scenes', "s1").renderer = S1.renderer
               /\ DictGet(scenes', "s1").objs = S1.objs
               /\ EngineEvents(log') = {}]_vars

\* a prepare that found the scene prepared and built nothing
C3_Witness ==
    /\ last.op = "prepare"
    /\ last.res = Ok
    /\ log = <<>>
    /\ Len(S1.objs) = 2

\* prepare got past the parameter check of s1 in the last call
PrepareReturned ==
    \/ last.op = "prepare" /\ last.res = Ok
    \/ last.op = "render" /\ last.res.who # "s1" /\ last.res.kind \notin {"KeyError"}

\* the engine matches the scene and holds each linked object under its index
Fresh(sc) ==
    /\ sc.renderer.exists
    /\ sc.renderer.width = sc.width
    /\ sc.renderer.height = sc.height
    /\ sc.renderer.samples = sc.samples
    /\ \A i \in 1..Len(sc.objs) :
          /\ sc.objs[i].idx # None
          /\ sc.objs[i].idx < Len(sc.renderer.loaded)
          /\ sc.renderer.loaded[sc.objs[i].idx + 1] = sc.objs[i].ref

\* C4: when prepare has returned, the scene is not dirty, its engine was built
\* with the scene's current width, height and samples, and every linked object
\* holds the index the current engine gave it
C4_FreshAfterPrepare ==
    PrepareReturned => (Registered("s1") /\ ~SceneIsDirty(S1) /\ Fresh(S1))

\* a rebuild after the resolution and the samples changed, with two objects
C4_Witness ==
    /\ last.op = "prepare"
    /\ last.res = Ok
    /\ EngineEvents(log) # {}
    /\ Len(S1.objs) = 2
    /\ S1.samples = 4
    /\ S1.width = 4

\* the spellings of the two supported format names among the inputs
PngSpellings == {<<"P", "N", "G">>, <<"p", "n", "g">>}
ExrSpellings ==
    {<<"O", "P", "E", "N", "_", "E", "X", "R">>, <<"o", "p", "e", "n", "_", "E", "x", "r">>}

\* the depth given is the number n, as an int or in decimal digits
DepthIs(d, n) ==
    \/ d.t = "int" /\ d.n = n
    \/ d.t = "str" /\ n = 16 /\ d.s = <<"1", "6">>
    \/ d.t = "float" /\ d.n = 10 * n

\* the combinations the claim lists
Listed(f, d) ==
    \/ f \in PngSpellings /\ (DepthIs(d, 8) \/ DepthIs(d, 16))
    \/ f \in ExrSpellings /\ DepthIs(d, 32)

\* what int() makes of the depths among the inputs
IntOfDepth(d) ==
    CASE d = PyStrOf(<<"1", "6">>) -> 16
      [] d = PyFloatOf(85) -> 8
      [] d.t = "int" -> d.n
      [] OTHER -> None

Convertible(d) == d # PyStrOf(<<"x">>)

Accepted(f, d) ==
    \/ f \in PngSpellings /\ IntOfDepth(d) \in {8, 16}
    \/ f \in ExrSpellings /\ IntOfDepth(d) = 32

FormatOfScene(sc) == <<sc.file_format, sc.color_depth, sc.use_preview>>

ListedForm(sel) ==
    \/ sel.t \in {"none", "str", "scene"}
    \/ /\ sel.t = "list"
       /\ sel.items # <<>>
       /\ \/ \A i \in 1..Len(sel.items) : sel.items[i].t = "str"
          \/ \A i \in 1..Len(sel.items) : sel.items[i].t = "scene"

\* C5 as claimed: a selector of one of the five forms yields the scenes it
\* names, in order, and every other input is refused with RenderControllerError
C5_AsClaimed ==
    last.op = "_iter_scenes"
        => IF ListedForm(last.sel)
           THEN \/ last.res.kind = "KeyError"
                \/ /\ last.res = Ok
                   /\ last.out = IF last.sel.t = "none"
                                 THEN [i \in 1..Len(scenes) |-> SceneItem(scenes[i].k)]
                                 ELSE [i \in 1..Len(last.sel.items) |->
                                          SceneItem(last.sel.items[i].v)]
           ELSE last.res.kind = "RenderControllerError"

\* the scenes a call with selector sel reaches, when the selector resolves
Reached(sel, i) == sel = SelNone \/ sel = SelStr(scenes[i].k)

\* C7: set_samples takes 1, 4, 9 and 16 only; any other count raises an
\* assertion error and leaves sample count and dirty flag alone; a supported
\* count equal to the current one leaves the scene as it is; a different
\* supported count is stored and marks the scene dirty
C7_SetSamples ==
    [][(last'.op = "set_samples" /\ last'.res.kind # "KeyError"
           /\ \E i \in 1..Len(scenes) : Reached(last'.sel, i))
         => LET k == last'.arg[1] IN
            IF k \notin {1, 4, 9, 16}
            THEN last'.res.kind = "AssertionError" /\ scenes' = scenes
            ELSE /\ last'.res = Ok
                 /\ Len(scenes') = Len(scenes)
                 /\ \A i \in 1..Len(scenes) :
                       IF ~Reached(last'.sel, i) \/ scenes[i].samples = k
                       THEN scenes'[i] = scenes[i]
                       ELSE scenes'[i] = [scenes[i] EXCEPT !.samples = k, !.dirty = TRUE]]_vars

\* the current count given again to a prepared scene, and another to the other
C7_Witness ==
    /\ last.op = "set_samples"
    /\ last.res = Ok
    /\ last.arg = <<16>>
    /\ last.sel = SelNone
    /\ Len(scenes) = 2
    /\ ~scenes[1].dirty
    /\ scenes[1].renderer.samples = 16
    /\ scenes[2].dirty
    /\ scenes[2].renderer.samples = 9

\* a camera the claim says cannot be rendered through
Incomplete(c) ==
    \/ c.loc = None
    \/ c.q = None /\ c.target = None
    \/ c.focal_length = None \/ c.sensor_width = None
    \/ c.frustum_near = None \/ c.frustum_far = None

\* C6 as claimed: a render of a scene with a camera that has no location,
\* neither orientation nor target, or no configuration raises an assertion
\* error naming a camera and writes no image
C6_AsClaimed ==
    (/\ last.op = "render"
     /\ Registered("s1")
     /\ ~Unset(S1)
     /\ \E i \in 1..Len(S1.cams) : Incomplete(camera[S1.cams[i].ref]))
        => /\ last.res.kind = "AssertionError"
           /\ \E i \in 1..Len(S1.cams) : last.res.who = S1.cams[i].k
           /\ SaveEvents(log) = {}

S2 == DictGet(scenes, "s2")
C1cam == camera[ctl_cams["c1"]]
C2cam == camera[ctl_cams["c2"]]

\* C8: every image a render writes was rendered with a camera model that
\* exists, belongs to a camera that is not dirty, and has the width and height
\* the scene has at that moment
C8_RenderedModel ==
    \A i \in SaveEvents(log) :
        /\ log[i].m[1] # None
        /\ log[i].m[2] # None
        /\ log[i].m = <<DictGet(scenes, log[i].s).width, DictGet(scenes, log[i].s).height, False>>

\* the shared camera renders the second scene after the first, which has
\* another resolution
C8_Witness ==
    /\ last.op = "render"
    /\ last.sel = SelStr("s2")
    /\ last.res = Ok
    /\ \E i \in SaveEvents(log) : log[i].n = "c1" /\ log[i].m = <<4, 2, False>>
    /\ \E j \in 1..Len(S1.cams) : S1.cams[j].k = "c1"
    /\ S1.renderer.exists
    /\ S1.renderer.width = 2
    /\ S1.width = 2
    /\ ~S1.dirty

\* the scenes set_resolution reaches whose resolution differs from the new one
Resized(sel, res, i) == Reached(sel, i) /\ <<scenes[i].width, scenes[i].height>> # res

\* C9: set_resolution with the current resolution changes nothing; with another
\* one it stores width and height, marks the scene dirty and marks the cameras
\* linked to that scene dirty; other scenes, the cameras linked to other scenes
\* only, and the objects stay as they were
C9_SetResolution ==
    [][(last'.op = "set_resolution" /\ last'.res.kind = "ok")
         => /\ Len(scenes') = Len(scenes)
            /\ \A i \in 1..Len(scenes) :
                   scenes'[i] =
                       IF Resized(last'.sel, last'.arg, i)
                       THEN [scenes[i] EXCEPT !.width = last'.arg[1],
                                              !.height = last'.arg[2], !.dirty = TRUE]
                       ELSE scenes[i]
            /\ \A c \in CamIds :
                   camera'[c] =
                       IF \E i \in 1..Len(scenes) :
                              /\ Resized(last'.sel, last'.arg, i)
                              /\ \E j \in 1..Len(scenes[i].cams) : scenes[i].cams[j].ref = c
                       THEN [camera[c] EXCEPT !.dirty = TRUE]
                       ELSE camera[c]
            /\ UNCHANGED <<object, ctl_cams, ctl_objs>>]_vars

\* both rendered scenes are given the resolution of the second: the first and
\* the shared camera turn dirty, the second and its own camera stay clean
C9_Witness ==
    /\ last.op = "set_resolution"
    /\ last.res = Ok
    /\ last.sel = SelNone
    /\ last.arg = <<4, 2>>
    /\ S1.renderer.exists /\ S1.renderer.width = 2 /\ S1.width = 4 /\ S1.dirty
    /\ S2.renderer.exists /\ S2.renderer.width = 4 /\ S2.width = 4 /\ ~S2.dirty
    /\ C1cam.dirty
    /\ C2cam.model.width = 4 /\ ~C2cam.dirty

\* the objects of a scene that have no location or no orientation, by position
Unplaced(sc) ==
    {i \in 1..Len(sc.objs) : object[sc.objs[i].ref].loc = None \/ object[sc.objs[i].ref].q = None}

\* the events of one kind the call logged for scene s before position i
Before(e, s, i) == {log[j].n : j \in {k \in 1..(i - 1) : log[k].e = e /\ log[k].s = s}}

Imgs(sc) == [j \in 1..Len(sc.cams) |-> <<sc.k, sc.cams[j].k>>]

RECURSIVE ImagesUpTo(_, _)
\* the images the first k scenes of a selection write
ImagesUpTo(out, k) ==
    IF k = 0 THEN <<>> ELSE ImagesUpTo(out, k - 1) \o Imgs(DictGet(scenes, out[k].v))

IsSave(e) == e.e = "save"

\* the images the last call wrote, in the order it wrote them
Saved ==
    LET s == SelectSeq(log, IsSave) IN [i \in 1..Len(s) |-> <<s[i].s, s[i].n>>]

\* C11 as claimed: a render that returns has written the images scene by scene
\* in the order the scenes were registered, one image per scene and camera
C11_AsClaimed ==
    (last.op = "render" /\ last.res = Ok)
        => /\ \A i \in 1..Len(Saved) : \A j \in i..Len(Saved) :
                  DictIdx(scenes, Saved[i][1]) <= DictIdx(scenes, Saved[j][1])
           /\ \A i \in 1..Len(Saved) : \A j \in 1..Len(Saved) :
                  Saved[i] = Saved[j] => i = j

\* C11: render goes through the selection in the order _iter_scenes yields it
\* (registration order for None, the order of the list for a list, a name given
\* twice is rendered twice); a render that returns has written one image per
\* camera for each element; a render that raises has written all images of the
\* elements before the failing one, not all of the failing one, touched no
\* element after it, and left the earlier scenes prepared
C11_RenderInOrder ==
    (last.op = "render" /\ last.fmt = <<"date">> /\ Iter(last.sel, scenes).res = Ok)
        => LET out == Iter(last.sel, scenes).out IN
           /\ last.sel = SelNone => out = [i \in 1..Len(scenes) |-> SceneItem(scenes[i].k)]
           /\ last.sel.t = "list" =>
                  out = [i \in 1..Len(last.sel.items) |-> SceneItem(last.sel.items[i].v)]
           /\ IF last.res = Ok
              THEN /\ Saved = ImagesUpTo(out, Len(out))
                   /\ \A j \in 1..Len(out) : ~DictGet(scenes, out[j].v).dirty
              ELSE \E k \in 1..Len(out) :
                       /\ \E m \in 0..Len(DictGet(scenes, out[k].v).cams) :
                              Saved = ImagesUpTo(out, k - 1)
                                          \o SubSeq(Imgs(DictGet(scenes, out[k].v)), 1, m)
                       /\ Len(Saved) < Len(ImagesUpTo(out, k))
                              \/ DictGet(scenes, out[k].v).cams = <<>>
                       /\ \A i \in 1..Len(log) : \E j \in 1..k : log[i].s = out[j].v
                       /\ \A j \in 1..(k - 1) :
                              /\ ~DictGet(scenes, out[j].v).dirty
                              /\ DictGet(scenes, out[j].v).renderer.exists

\* the scene registered second is listed first and rendered through both its
\* cameras, then the scene registered first fails its check
C11_Witness ==
    /\ last.op = "render"
    /\ last.sel = SelList(<<Item("str", "s2"), Item("str", "s1")>>)
    /\ scenes[1].k = "s1"
    /\ last.res.kind = "AssertionError"
    /\ last.res.who = "s1"
    /\ Len(Saved) = 2
    /\ Saved[1][1] = "s2" /\ Saved[2][1] = "s2"
    /\ ~S2.dirty
    /\ S1.dirty

\* C12 as claimed: set_scene_config either sets every given parameter on every
\* selected scene or, when a name is no attribute of a scene, raises an
\* assertion error and leaves every scene as it was
C12_AsClaimed ==
    [][(/\ last'.op = "set_scene_config"
        /\ Iter(last'.sel, scenes).res = Ok
        /\ \E i \in 1..Len(scenes) : Reached(last'.sel, i))
         => IF \A j \in 1..Len(last'.arg) : last'.arg[j][1] \in SceneDict
            THEN /\ last'.res = Ok
                 /\ \A i \in 1..Len(scenes) :
                        Reached(last'.sel, i) =>
                            scenes'[i] = ApplyParams(scenes[i], last'.arg, 1).sc
            ELSE /\ last'.res.kind = "AssertionError"
                 /\ scenes' = scenes]_vars

====
